---------------------------- MODULE Spec2Model ----------------------------
(***************************************************************************)
(* A model of the ChatGPT voice assistant: the conversation session       *)
(* (chatgpt_api.py, ChatGPTClient) and the orchestrator's run loop        *)
(* (assistant.py, VoiceAssistant and main) with the resources its         *)
(* adapters hold (wakeword.py, stt.py, tts.py).                            *)
(*                                                                         *)
(* A Python str is a sequence of pieces: a piece is one character, and    *)
(* the fixed sentences of the program are single pieces holding the       *)
(* literal (no code path looks inside them).  A Python Optional[str] is   *)
(* a record [isNone, s].                                                   *)
(***************************************************************************)
EXTENDS Integers, Sequences, FiniteSets, TLC

(***************************************************************************)
(* Bounds of the model.                                                    *)
(***************************************************************************)
\* Config.MAX_CONVERSATION_HISTORY ranges over 1..MaxH.
MaxH == 3
\* send_message is called only while the history holds fewer messages.
MaxHistoryLen == 5

(***************************************************************************)
(* Python values.                                                          *)
(***************************************************************************)
Whitespace == {" ", "\t", "\n"}

PyNone == [isNone |-> TRUE, s |-> <<>>]

PyStr(t) == [isNone |-> FALSE, s |-> t]

\* bool(v) of an Optional[str]: None and "" are falsy.
Truthy(v) == ~v.isNone /\ v.s # <<>>

RECURSIVE LStrip(_)
LStrip(t) == IF t # <<>> /\ Head(t) \in Whitespace THEN LStrip(Tail(t)) ELSE t

RECURSIVE RStrip(_)
RStrip(t) ==
    IF t # <<>> /\ t[Len(t)] \in Whitespace
    THEN RStrip(SubSeq(t, 1, Len(t) - 1))
    ELSE t

\* str.strip()
Strip(t) == RStrip(LStrip(t))

\* seq[start:] with Python's rules: a negative start counts from the end,
\* and the result is clipped to the sequence.
PySliceFrom(seq, start) ==
    LET n == Len(seq)
        from == IF start < 0
                THEN (IF n + start < 0 THEN 0 ELSE n + start)
                ELSE (IF start > n THEN n ELSE start)
    IN  SubSeq(seq, from + 1, n)

(***************************************************************************)
(* Inputs of the conversation session.                                     *)
(***************************************************************************)
\* system_prompt arguments of ChatGPTClient(...): None, "", "s", " ".
SystemPrompts == {PyNone, PyStr(<<>>), PyStr(<<"s">>), PyStr(<<" ">>)}

\* user_message arguments of send_message: "", " \t", "a", " b".
UserTexts == {<<>>, <<" ", "\t">>, <<"a">>, <<" ", "b">>}

\* response.choices[0].message.content of a successful call: "x", " y\n", " ".
ReplyTexts == {<<"x">>, <<" ", "y", "\n">>, <<" ">>}

\* What the remote call can raise, with the classes each is an instance of
\* (openai: RateLimitError < APIStatusError < APIError, APITimeoutError <
\* APIConnectionError < APIError; IndexError stands for any non-API error,
\* such as an empty choices list; OSError is what print can raise;
\* KeyboardInterrupt is no Exception).
ExceptionBases ==
    [RateLimitError     |-> {"RateLimitError", "APIStatusError", "APIError", "Exception"},
     APIConnectionError |-> {"APIConnectionError", "APIError", "Exception"},
     APITimeoutError    |-> {"APITimeoutError", "APIConnectionError", "APIError", "Exception"},
     APIStatusError     |-> {"APIStatusError", "APIError", "Exception"},
     IndexError         |-> {"IndexError", "Exception"},
     OSError            |-> {"OSError", "Exception"},
     KeyboardInterrupt  |-> {"KeyboardInterrupt"}]

IsInstance(exc, cls) == cls \in ExceptionBases[exc]

\* What the remote call can raise: its failures, and the interrupt that is none.
RemoteRaises ==
    {"RateLimitError", "APIConnectionError", "APITimeoutError", "APIStatusError",
     "IndexError", "KeyboardInterrupt"}

RemoteErrors == {e \in RemoteRaises : IsInstance(e, "Exception")}

\* The outcomes of the remote call in the cycles of the run loop: a reply,
\* a blank reply, a failure of two categories, an interrupt.
CycleOutcomes ==
    [raised : {"none"}, content : {<<"x">>, <<" ">>}]
        \cup [raised : {"RateLimitError", "IndexError", "KeyboardInterrupt"}, content : {<<>>}]

\* The outcomes of client.chat.completions.create(...).
RemoteOutcomes ==
    [raised : {"none"}, content : ReplyTexts]
        \cup [raised : RemoteRaises, content : {<<>>}]

(***************************************************************************)
(* The conversation session, chatgpt_api.py                                *)
(***************************************************************************)
VARIABLES
    conversation_history,   \* ChatGPTClient.conversation_history
    max_history,            \* Config.MAX_CONVERSATION_HISTORY
    op,                     \* the call of the session that completed last
    user_message,           \* its argument (send_message)
    before,                 \* conversation_history when it was entered
    request,                \* messages of the remote call it issued, <<>> if none
    raised,                 \* what that remote call raised, "none" if nothing
    result,                 \* what the call returned
    propagated              \* the exception that left the call, "none" if it returned

sessionVars ==
    <<conversation_history, max_history, op, user_message, before, request, raised,
      result, propagated>>

Message(role, content) == [role |-> role, content |-> content]

\* seq[-1]
Last(seq) == seq[Len(seq)]

\* ChatGPTClient.__init__: the history after construction.
InitialHistory(system_prompt) ==
    IF Truthy(system_prompt) THEN <<Message("system", system_prompt.s)>> ELSE <<>>

IsSystem(msg) == msg.role = "system"

IsOther(msg) == msg.role # "system"

\* A trim that keeps the last H messages whatever their role.
trim_history_last_H(history, H) ==
    IF Len(history) > H THEN PySliceFrom(history, -H) ELSE history

\* A trim that drops only the oldest message that is not a system message.
trim_history_drops_one(history, H) ==
    IF Len(history) > H
    THEN SelectSeq(history, IsSystem) \o Tail(SelectSeq(history, IsOther))
    ELSE history

\* ChatGPTClient._trim_history with Config.MAX_CONVERSATION_HISTORY = H.
trim_history(history, H) ==
    IF Len(history) > H
    THEN LET system_msgs  == SelectSeq(history, IsSystem)
             other_msgs   == SelectSeq(history, IsOther)
             trimmed_msgs == PySliceFrom(other_msgs, -(H - Len(system_msgs)))
         IN  system_msgs \o trimmed_msgs
    ELSE history

\* The except clauses with the clause for APIError moved to the front.
HandlersGenericFirst ==
    << [cls |-> "APIError",
        ret |-> <<"I encountered an error processing your request. Please try again.">>],
       [cls |-> "RateLimitError",
        ret |-> <<"I'm receiving too many requests right now. Please try again in a moment.">>],
       [cls |-> "APIConnectionError",
        ret |-> <<"I'm having trouble connecting to my servers. Please check your internet connection.">>],
       [cls |-> "Exception",
        ret |-> <<"An unexpected error occurred. Please try again.">>] >>

\* The except clauses of send_message, in source order.
Handlers ==
    << [cls |-> "RateLimitError",
        ret |-> <<"I'm receiving too many requests right now. Please try again in a moment.">>],
       [cls |-> "APIConnectionError",
        ret |-> <<"I'm having trouble connecting to my servers. Please check your internet connection.">>],
       [cls |-> "APIError",
        ret |-> <<"I encountered an error processing your request. Please try again.">>],
       [cls |-> "Exception",
        ret |-> <<"An unexpected error occurred. Please try again.">>] >>

\* The clauses exc is an instance of; the first of them handles it.
Matching(exc) == {k \in 1..Len(Handlers) : IsInstance(exc, Handlers[k].cls)}

Fallback(exc) ==
    LET i == CHOOSE k \in Matching(exc) : \A j \in Matching(exc) : k <= j
    IN  Handlers[i].ret

\* A guard that rejects the empty string only.
IsEmpty(text) == text = <<>>

\* The guard of send_message: not user_message.strip()
IsBlank(text) == Strip(text) = <<>>

\* A success path that stores and returns the reply as received.
OnSuccessKeepsWhitespace(sent, content, H) ==
    [history    |-> trim_history(Append(sent, Message("assistant", content)), H),
     ret        |-> PyStr(content),
     propagated |-> "none"]

\* A success path that trims before the reply is appended.
OnSuccessTrimsFirst(sent, content, H) ==
    LET assistant_message == Strip(content)
    IN  [history    |-> Append(trim_history(sent, H), Message("assistant", assistant_message)),
         ret        |-> PyStr(assistant_message),
         propagated |-> "none"]

\* send_message when the remote call returns content: the reply is stripped,
\* appended and the history trimmed.
OnSuccess(sent, content, H) ==
    LET assistant_message == Strip(content)
    IN  [history    |-> trim_history(Append(sent, Message("assistant", assistant_message)), H),
         ret        |-> PyStr(assistant_message),
         propagated |-> "none"]

\* An error path that appends the sentence it returns as the assistant's reply.
OnErrorAppendsReply(sent, exc) ==
    [history    |-> Append(sent, Message("assistant", Handlers[1].ret)),
     ret        |-> PyStr(Handlers[1].ret),
     propagated |-> "none"]

\* send_message when the remote call raises exc: an except clause returns its
\* sentence, and what no clause catches leaves the call.
OnError(sent, exc) ==
    IF Matching(exc) # {}
    THEN [history |-> sent, ret |-> PyStr(Fallback(exc)), propagated |-> "none"]
    ELSE [history |-> sent, ret |-> PyNone, propagated |-> exc]

\* ChatGPTClient.send_message on history h: what it leaves and returns.
SendResult(h, text, outcome, H) ==
    IF IsBlank(text)
    THEN [history |-> h, request |-> <<>>, raised |-> "none", ret |-> PyNone,
          propagated |-> "none"]
    ELSE LET sent == Append(h, Message("user", text))
             end  == IF outcome.raised = "none"
                     THEN OnSuccess(sent, outcome.content, H)
                     ELSE OnError(sent, outcome.raised)
         IN  [history |-> end.history, request |-> sent, raised |-> outcome.raised,
              ret |-> end.ret, propagated |-> end.propagated]

\* A call of ChatGPTClient.send_message.
send_message(text, outcome) ==
    LET r == SendResult(conversation_history, text, outcome, max_history)
    IN  /\ Len(conversation_history) < MaxHistoryLen
        /\ op' = "send_message"
        /\ user_message' = text
        /\ before' = conversation_history
        /\ conversation_history' = r.history
        /\ request' = r.request
        /\ raised' = r.raised
        /\ result' = r.ret
        /\ propagated' = r.propagated
        /\ UNCHANGED max_history

\* A call of ChatGPTClient._trim_history.
trim_history_call ==
    /\ op' = "_trim_history"
    /\ before' = conversation_history
    /\ conversation_history' = trim_history(conversation_history, max_history)
    /\ request' = <<>>
    /\ raised' = "none"
    /\ result' = PyNone
    /\ propagated' = "none"
    /\ UNCHANGED <<max_history, user_message>>

\* A reset that drops the system message as well.
reset_conversation_clears_all ==
    /\ op' = "reset_conversation"
    /\ before' = conversation_history
    /\ conversation_history' = <<>>
    /\ request' = <<>>
    /\ raised' = "none"
    /\ result' = PyNone
    /\ propagated' = "none"
    /\ UNCHANGED <<max_history, user_message>>

\* ChatGPTClient.reset_conversation
reset_conversation ==
    /\ op' = "reset_conversation"
    /\ before' = conversation_history
    /\ conversation_history' = SelectSeq(conversation_history, IsSystem)
    /\ request' = <<>>
    /\ raised' = "none"
    /\ result' = PyNone
    /\ propagated' = "none"
    /\ UNCHANGED <<max_history, user_message>>

\* The session after ChatGPTClient(system_prompt=...), under any configured size.
SessionInit ==
    /\ max_history \in 1..MaxH
    /\ \E system_prompt \in SystemPrompts :
           conversation_history = InitialHistory(system_prompt)
    /\ op = "__init__"
    /\ user_message = <<>>
    /\ before = <<>>
    /\ request = <<>>
    /\ raised = "none"
    /\ result = PyNone
    /\ propagated = "none"

(***************************************************************************)
(* The adapters and the orchestrator: wakeword.py, stt.py, tts.py,         *)
(* assistant.py.  One thread runs main(): initialize, run, cleanup.        *)
(***************************************************************************)
VARIABLES
    pc,             \* where the thread of main() is
    running,        \* VoiceAssistant.running
    components,     \* the adapters VoiceAssistant holds (attributes that are not None)
    wake,           \* WakeWordDetector: porcupine, audio_stream, pyaudio_instance, is_listening
    stt,            \* SpeechToText: pyaudio_instance, the stream of record_audio, the
                    \* terminate() calls made on the instance, an instance lost open
    tts,            \* TextToSpeech: engine
    cleaned,        \* the number of cleanup() calls made on each adapter
    spoken,         \* the text of the last tts.speak call, None before the first
    user_text,      \* handle_conversation's user_text
    cycle_exc,      \* the stages of the current cycle in which something was raised
    cycles,         \* the number of cycles started (wake words detected)
    prev_exc,       \* cycle_exc of the last cycle that ran to its end
    stop_req,       \* the first stop request: who made it, where the thread was
    pending,        \* the exception travelling up from run(), "none" if none
    exit_status,    \* how main() ended, "running" before
    cleanup_errors  \* the adapters whose release raised inside cleanup()

assistantVars ==
    <<pc, running, components, wake, stt, tts, cleaned, spoken, user_text, cycle_exc,
      cycles, prev_exc, stop_req, pending, exit_status, cleanup_errors>>

\* One call of SpeechToText.record_audio, chunk by chunk.
VARIABLES
    record_args,    \* sample_rate, chunk_size, silence_duration, max_duration
    rec             \* the locals of record_audio, where it is, what it returned

captureVars == <<record_args, rec>>

\* An adapter or the session called on its own, outside the loop.
VARIABLES
    call,           \* the last such call: what it was given, did and returned
    appended        \* the messages send_message appended since construction

auxVars == <<call, appended>>

vars == <<sessionVars, assistantVars, captureVars, auxVars>>

\* The number of cycles a run may start.
MaxCycles == 2

\* The adapters in the order initialize() constructs them.
Adapters == <<"wake_word", "stt", "chatgpt", "tts">>

AllAdapters == {Adapters[i] : i \in 1..Len(Adapters)}

\* The adapters VoiceAssistant.cleanup() calls cleanup() on.
Cleanable == {"wake_word", "stt", "tts"}

\* Config.MAX_CONVERSATION_HISTORY as the repository sets it.
MAX_CONVERSATION_HISTORY == 10

\* Config.SYSTEM_PROMPT
SYSTEM_PROMPT == <<"You are a helpful voice assistant. ...">>

\* The fixed sentences of assistant.py.
ReadySentence == <<"Voice assistant ready. Say hey chat G P T to activate.">>

YesSentence == <<"Yes?">>

DidntCatchSentence == <<"I didn't catch that. Please try again.">>

TroubleSentence == <<"I'm having trouble processing your request. Please try again.">>

ErrorSentence == <<"I encountered an error. Please try again.">>

\* A handle is "None" (the attribute is None), "open", or "closed" (the
\* attribute still refers to a handle that was released).
WakeReleased ==
    [porcupine |-> "None", audio_stream |-> "None", pyaudio_instance |-> "None",
     is_listening |-> FALSE]

\* WakeWordDetector.cleanup: stop(), then every handle that is set is
\* released and its attribute set to None, whether or not the release raises.
wake_cleanup(w) == WakeReleased

\* A SpeechToText.cleanup without `finally: self.pyaudio_instance = None`:
\* the instance is terminated and the attribute still refers to it.
stt_cleanup_keeps_handle(st) ==
    IF st.pyaudio_instance = "None" THEN st
    ELSE [st EXCEPT !.pyaudio_instance = "closed", !.terminated = @ + 1]

\* SpeechToText.cleanup: terminates pyaudio_instance if set (record_audio
\* leaves it set after terminating it) and clears it.
stt_cleanup(st) ==
    IF st.pyaudio_instance = "None" THEN st
    ELSE [st EXCEPT !.pyaudio_instance = "None", !.terminated = @ + 1]

\* TextToSpeech.cleanup: stops the engine if set and clears it.
tts_cleanup(t) == [t EXCEPT !.engine = "None"]

\* VoiceAssistant.cleanup on the adapters held: the state it leaves.
Cleanup(held, w, st, t, n) ==
    [wake    |-> IF "wake_word" \in held THEN wake_cleanup(w) ELSE w,
     stt     |-> IF "stt" \in held THEN stt_cleanup(st) ELSE st,
     tts     |-> IF "tts" \in held THEN tts_cleanup(t) ELSE t,
     cleaned |-> [a \in DOMAIN n |-> IF a \in held /\ a \in Cleanable THEN n[a] + 1 ELSE n[a]]]

\* WakeWordDetector.start: the handles acquired before the step that fails
\* are released by cleanup(); fail is "none" or the step that raises.
wake_start(w, fail) ==
    IF fail = "none"
    THEN [porcupine |-> "open", audio_stream |-> "open", pyaudio_instance |-> "open",
          is_listening |-> TRUE]
    ELSE wake_cleanup(w)

StartFailures == {"none", "pvporcupine.create", "PyAudio", "open"}

\* A guard of listen_once that does not look at is_listening.
ListeningIgnoresFlag(w) == w.audio_stream # "None" /\ w.porcupine # "None"

\* The guard of listen_once: listening, with a stream and a detector.
Listening(w) == w.is_listening /\ w.audio_stream # "None" /\ w.porcupine # "None"

\* WakeWordDetector.listen_once: False unless listening with a stream and a
\* detector; a frame is read and processed, a failure of either gives False.
ListenOutcomes == {"keyword", "no_keyword", "read_error", "process_error"}

listen_once(w, outcome) ==
    IF ~Listening(w)
    THEN FALSE
    ELSE outcome = "keyword"

\* A handle_conversation without its except clause.
CycleCatchesNothing(exc) == FALSE

\* The except clause of handle_conversation (except Exception): what it
\* catches ends the cycle with the error sentence.
CycleCatches(exc) == IsInstance(exc, "Exception")

\* What may be raised between the stage calls of handle_conversation (print).
Unexpected == {"none", "OSError"}

\* A transcribe that returns the stripped text even when it is empty.
transcribe_returns_empty(outcome) ==
    IF outcome.raises THEN PyNone ELSE PyStr(Strip(outcome.text))

\* SpeechToText.transcribe: what the engine does, and the text it gives.
\* The segments are joined and stripped; an empty text and a raising engine
\* give None.
TranscribeOutcomes ==
    {[raises |-> TRUE, text |-> <<>>],
     [raises |-> FALSE, text |-> <<"hello">>],
     [raises |-> FALSE, text |-> <<" ">>]}

transcribe(outcome) ==
    IF outcome.raises THEN PyNone
    ELSE IF Strip(outcome.text) # <<>> THEN PyStr(Strip(outcome.text)) ELSE PyNone

NoStop == [by |-> "none", at |-> "none", cycles |-> 0]

\* The first request to stop is the one recorded.
Requested(by) ==
    IF stop_req.by = "none" THEN [by |-> by, at |-> pc, cycles |-> cycles] ELSE stop_req

\* The positions inside the try block of run(): the loop and the cycle.
Waiting == {"loop", "listening"}

InCycle == {"capture", "recording", "transcribing", "conversing", "speaking"}

InTry == Waiting \cup InCycle \cup {"pause"}

\* An exception raised inside the try block of handle_conversation: caught
\* there, the error sentence is spoken and the call returns; a
\* KeyboardInterrupt is caught by run(), which stops; anything else leaves
\* run() through its finally clause (stop()).
Escape(exc) ==
    IF CycleCatches(exc)
    THEN [pc |-> "pause", spoken |-> PyStr(ErrorSentence), running |-> running,
          pending |-> "none"]
    ELSE [pc |-> "run_done", spoken |-> spoken, running |-> FALSE,
          pending |-> IF exc = "KeyboardInterrupt" THEN "none" ELSE exc]

\* An except clause of initialize() that returns False and cleans up nothing.
InitFailureNoCleanup(held, w, st, t, n) == [wake |-> w, stt |-> st, tts |-> t, cleaned |-> n]

\* What initialize() does when a constructor raises: cleanup() on what it holds.
InitFailure(held, w, st, t, n) == Cleanup(held, w, st, t, n)

\* VoiceAssistant.initialize, called by main(): the adapters are constructed
\* in order; fail is "none" or the adapter whose constructor raises.
initialize(fail) ==
    LET k     == IF fail = "none" THEN Len(Adapters) + 1
                 ELSE CHOOSE i \in 1..Len(Adapters) : Adapters[i] = fail
        held  == {Adapters[i] : i \in 1..(k - 1)}
        built == [engine |-> IF "tts" \in held THEN "open" ELSE "None"]
        c     == InitFailure(held, wake, stt, built, cleaned)
    IN  /\ pc = "start"
        /\ components' = held
        /\ IF "chatgpt" \in held
           THEN conversation_history' = InitialHistory(PyStr(SYSTEM_PROMPT))
           ELSE UNCHANGED conversation_history
        /\ IF fail = "none"
           THEN /\ pc' = "initialized"
                /\ tts' = built
                /\ UNCHANGED <<wake, stt, cleaned>>
           ELSE /\ pc' = "init_failed"
                /\ wake' = c.wake
                /\ stt' = c.stt
                /\ tts' = c.tts
                /\ cleaned' = c.cleaned
        /\ UNCHANGED <<max_history, op, user_message, before, request, raised, result,
                       propagated, running, spoken, user_text, cycle_exc, cycles,
                       prev_exc, stop_req, pending, exit_status,
                       cleanup_errors, captureVars, auxVars>>

\* VoiceAssistant.run up to the welcome message: the components are checked,
\* running is set and the wake detector started; a failed start returns.
run_start(fail) ==
    /\ pc = "initialized"
    /\ IF components # AllAdapters
       THEN /\ pc' = "run_done"
            /\ UNCHANGED <<running, wake, cleaned>>
       ELSE /\ running' = TRUE
            /\ wake' = wake_start(wake, fail)
            /\ IF fail = "none"
               THEN /\ pc' = "welcome"
                    /\ UNCHANGED cleaned
               ELSE /\ pc' = "run_done"
                    /\ cleaned' = [cleaned EXCEPT !["wake_word"] = @ + 1]
    /\ UNCHANGED <<sessionVars, components, stt, tts, spoken, user_text, cycle_exc, cycles,
                   prev_exc, stop_req, pending, exit_status,
                   cleanup_errors, captureVars, auxVars>>

\* run(): the welcome message, spoken before the try block is entered.
welcome ==
    /\ pc = "welcome"
    /\ spoken' = PyStr(ReadySentence)
    /\ pc' = "loop"
    /\ UNCHANGED <<sessionVars, running, components, wake, stt, tts, cleaned, user_text,
                   cycle_exc, cycles, prev_exc, stop_req, pending, exit_status,
                   cleanup_errors, captureVars, auxVars>>

\* A loop that never looks at the flag (while True).
loop_head_forever ==
    /\ pc = "loop"
    /\ pc' = "listening"
    /\ UNCHANGED <<sessionVars, running, components, wake, stt, tts, cleaned, spoken,
                   user_text, cycle_exc, cycles, prev_exc, stop_req, pending, exit_status,
                   cleanup_errors, captureVars, auxVars>>

\* run(): while self.running, with the call of listen_once; when the flag is
\* clear the loop ends and the finally clause calls stop().
loop_head ==
    /\ pc = "loop"
    /\ IF running
       THEN /\ pc' = "listening"
            /\ UNCHANGED running
       ELSE /\ pc' = "run_done"
            /\ running' = FALSE
    /\ UNCHANGED <<sessionVars, components, wake, stt, tts, cleaned, spoken, user_text,
                   cycle_exc, cycles, prev_exc, stop_req, pending, exit_status,
                   cleanup_errors, captureVars, auxVars>>

\* run(): listen_once returns; on True "Yes?" is spoken (ENABLE_AUDIO_FEEDBACK)
\* and handle_conversation is entered.
listen_return(outcome) ==
    /\ pc = "listening"
    /\ outcome = "keyword" => cycles < MaxCycles
    /\ IF listen_once(wake, outcome)
       THEN /\ pc' = "capture"
            /\ cycles' = cycles + 1
            /\ spoken' = PyStr(YesSentence)
            /\ user_text' = PyNone
            /\ cycle_exc' = {}
       ELSE /\ pc' = "loop"
            /\ UNCHANGED <<cycles, spoken, user_text, cycle_exc>>
    /\ UNCHANGED <<sessionVars, running, components, wake, stt, tts, cleaned,
                   prev_exc, stop_req, pending, exit_status,
                   cleanup_errors, captureVars, auxVars>>

\* What can fail when record_audio opens the microphone.
OpenFailures == {"none", "PyAudio", "open"}

\* record_audio up to the open stream: PyAudio() and open(); a failure of
\* either is caught by record_audio, which returns None, and
\* handle_conversation speaks the "didn't catch that" prompt and returns.
\* The new PyAudio instance replaces the one the attribute referred to; when
\* open() fails the new instance stays open in the attribute.
record_open(fail) ==
    /\ pc = "capture"
    /\ stt' = IF fail = "PyAudio" THEN stt
              ELSE [pyaudio_instance |-> "open",
                    stream           |-> IF fail = "none" THEN "open" ELSE "None",
                    terminated       |-> 0,
                    leaked           |-> stt.leaked \/ stt.pyaudio_instance = "open"]
    /\ IF fail = "none"
       THEN /\ pc' = "recording"
            /\ UNCHANGED <<spoken, cycle_exc>>
       ELSE /\ pc' = "pause"
            /\ spoken' = PyStr(DidntCatchSentence)
            /\ cycle_exc' = cycle_exc \cup {"capture"}
    /\ UNCHANGED <<sessionVars, running, components, wake, tts, cleaned, user_text, cycles,
                   prev_exc, stop_req, pending, exit_status,
                   cleanup_errors, captureVars, auxVars>>

\* How the read loop of record_audio can end.
ReadOutcomes == {"speech", "silence", "error_before_speech", "error_after_speech"}

\* record_audio from the read loop on: the loop ends (a failed read breaks
\* it), the stream is closed and PyAudio terminated; without speech it
\* returns None and the "didn't catch that" prompt is spoken.
record_read(outcome) ==
    /\ pc = "recording"
    /\ stt' = [stt EXCEPT !.pyaudio_instance = "closed", !.stream = "None",
                          !.terminated = @ + 1]
    /\ cycle_exc' = IF outcome \in {"error_before_speech", "error_after_speech"}
                    THEN cycle_exc \cup {"capture"} ELSE cycle_exc
    /\ IF outcome \in {"speech", "error_after_speech"}
       THEN /\ pc' = "transcribing"
            /\ UNCHANGED spoken
       ELSE /\ pc' = "pause"
            /\ spoken' = PyStr(DidntCatchSentence)
    /\ UNCHANGED <<sessionVars, running, components, wake, tts, cleaned, user_text, cycles,
                   prev_exc, stop_req, pending, exit_status,
                   cleanup_errors, captureVars, auxVars>>

\* A handle_conversation without `if not user_text`: whatever transcribe
\* returns is sent on.
transcribe_return_unchecked(outcome, exc) ==
    LET text == transcribe(outcome)
    IN  /\ pc = "transcribing"
        /\ exc = "none"
        /\ user_text' = text
        /\ pc' = "conversing"
        /\ UNCHANGED <<sessionVars, running, components, wake, stt, tts, cleaned, spoken,
                       cycle_exc, cycles, prev_exc, stop_req, pending, exit_status,
                       cleanup_errors, captureVars, auxVars>>

\* handle_conversation: transcribe returns; None gives the "didn't catch
\* that" prompt, a text is printed (which may raise) and sent on.
transcribe_return(outcome, exc) ==
    LET text == transcribe(outcome)
        esc  == Escape(exc)
    IN  /\ pc = "transcribing"
        /\ user_text' = text
        /\ IF ~Truthy(text)
           THEN /\ pc' = "pause"
                /\ spoken' = PyStr(DidntCatchSentence)
                /\ cycle_exc' = IF outcome.raises THEN cycle_exc \cup {"transcription"}
                                ELSE cycle_exc
                /\ UNCHANGED <<running, pending>>
           ELSE IF exc # "none"
           THEN /\ pc' = esc.pc
                /\ spoken' = esc.spoken
                /\ running' = esc.running
                /\ pending' = esc.pending
                /\ cycle_exc' = cycle_exc \cup {"unexpected"}
           ELSE /\ pc' = "conversing"
                /\ UNCHANGED <<spoken, cycle_exc, running, pending>>
        /\ UNCHANGED <<sessionVars, components, wake, stt, tts, cleaned, cycles,
                       prev_exc, stop_req, exit_status,
                       cleanup_errors, captureVars, auxVars>>

\* handle_conversation: send_message returns or raises; a falsy response
\* gives the "trouble processing" prompt, another is printed (which may
\* raise) and goes to playback.
converse(outcome, exc) ==
    LET r    == SendResult(conversation_history, user_text.s, outcome, max_history)
        left == IF r.propagated # "none" THEN r.propagated ELSE exc
        esc  == Escape(left)
    IN  /\ pc = "conversing"
        /\ op' = "send_message"
        /\ user_message' = user_text.s
        /\ before' = conversation_history
        /\ conversation_history' = r.history
        /\ request' = r.request
        /\ raised' = r.raised
        /\ result' = r.ret
        /\ propagated' = r.propagated
        /\ cycle_exc' = (IF r.raised \in RemoteErrors THEN cycle_exc \cup {"conversation"}
                         ELSE cycle_exc)
                        \cup (IF r.propagated = "none" /\ Truthy(r.ret) /\ exc # "none"
                              THEN {"unexpected"} ELSE {})
        /\ IF r.propagated = "none" /\ ~Truthy(r.ret)
           THEN /\ pc' = "pause"
                /\ spoken' = PyStr(TroubleSentence)
                /\ UNCHANGED <<running, pending, stop_req>>
           ELSE IF left # "none"
           THEN /\ pc' = esc.pc
                /\ spoken' = esc.spoken
                /\ running' = esc.running
                /\ pending' = esc.pending
                /\ stop_req' = IF left = "KeyboardInterrupt" THEN Requested("interrupt")
                               ELSE stop_req
           ELSE /\ pc' = "speaking"
                /\ UNCHANGED <<spoken, running, pending, stop_req>>
        /\ UNCHANGED <<max_history, components, wake, stt, tts, cleaned, user_text, cycles,
                       prev_exc, exit_status,
                       cleanup_errors, captureVars, auxVars>>

\* A handle_conversation that asks the model again when playback fails.
speak_response_retries(engine_ok) ==
    /\ pc = "speaking"
    /\ spoken' = result
    /\ cycle_exc' = IF engine_ok THEN cycle_exc ELSE cycle_exc \cup {"playback"}
    /\ pc' = IF engine_ok THEN "pause" ELSE "conversing"
    /\ UNCHANGED <<sessionVars, running, components, wake, stt, tts, cleaned, user_text,
                   cycles, prev_exc, stop_req, pending, exit_status,
                   cleanup_errors, captureVars, auxVars>>

\* handle_conversation: tts.speak(response, blocking=True); a raising engine
\* makes speak return False.
speak_response(engine_ok) ==
    /\ pc = "speaking"
    /\ spoken' = result
    /\ cycle_exc' = IF engine_ok THEN cycle_exc ELSE cycle_exc \cup {"playback"}
    /\ pc' = "pause"
    /\ UNCHANGED <<sessionVars, running, components, wake, stt, tts, cleaned, user_text,
                   cycles, prev_exc, stop_req, pending, exit_status,
                   cleanup_errors, captureVars, auxVars>>

\* run(): handle_conversation has returned; time.sleep(0.5), and the loop goes on.
pause ==
    /\ pc = "pause"
    /\ prev_exc' = cycle_exc
    /\ pc' = "loop"
    /\ UNCHANGED <<sessionVars, running, components, wake, stt, tts, cleaned, spoken,
                   user_text, cycle_exc, cycles, stop_req, pending, exit_status,
                   cleanup_errors, captureVars, auxVars>>

\* A KeyboardInterrupt reaches the thread: inside the try block of run() it
\* is caught and the finally clause calls stop(); during the welcome message
\* it leaves run().
interrupt ==
    /\ pc \in InTry \cup {"welcome"}
    /\ stop_req' = Requested("interrupt")
    /\ pc' = "run_done"
    /\ IF pc = "welcome"
       THEN /\ pending' = "KeyboardInterrupt"
            /\ UNCHANGED running
       ELSE /\ running' = FALSE
            /\ UNCHANGED pending
    /\ UNCHANGED <<sessionVars, components, wake, stt, tts, cleaned, spoken, user_text,
                   cycle_exc, cycles, prev_exc, exit_status,
                   cleanup_errors, captureVars, auxVars>>

\* VoiceAssistant.stop, called from outside the loop while run() is in it.
stop ==
    /\ pc \in InTry
    /\ stop_req.by = "none"
    /\ running' = FALSE
    /\ stop_req' = Requested("stop")
    /\ UNCHANGED <<sessionVars, pc, components, wake, stt, tts, cleaned, spoken, user_text,
                   cycle_exc, cycles, prev_exc, pending, exit_status,
                   cleanup_errors, captureVars, auxVars>>

\* The adapters in the order VoiceAssistant.cleanup() goes through them.
CleanupOrder == <<"wake_word", "stt", "tts">>

\* The adapters held that have a handle to release: cleanup() of the others
\* releases nothing.
Holding ==
    {a \in components \cap Cleanable :
        \/ a = "wake_word" /\ wake # WakeReleased
        \/ a = "stt" /\ stt.pyaudio_instance # "None"
        \/ a = "tts" /\ tts.engine # "None"}

\* The release of no adapter raises, or that of one.
ReleaseFailures == {{}} \cup {{a} : a \in Cleanable}

\* A main() whose cleanup stops at the first adapter whose release raises.
main_return_aborts(raising) ==
    LET first == IF raising = {} THEN Len(CleanupOrder)
                 ELSE CHOOSE i \in 1..Len(CleanupOrder) :
                          /\ CleanupOrder[i] \in raising
                          /\ \A j \in 1..(i - 1) : CleanupOrder[j] \notin raising
        reached == {CleanupOrder[i] : i \in 1..first}
        c == Cleanup(components \cap reached, wake, stt, tts, cleaned)
    IN  /\ pc \in {"init_failed", "run_done"}
        /\ raising \subseteq Holding
        /\ wake' = c.wake
        /\ stt' = c.stt
        /\ tts' = c.tts
        /\ cleaned' = c.cleaned
        /\ cleanup_errors' = raising \cap reached
        /\ exit_status' = IF raising # {} THEN "OSError"
                          ELSE IF pc = "init_failed" THEN "1"
                          ELSE IF pending = "none" THEN "0"
                          ELSE IF IsInstance(pending, "Exception") THEN "1"
                          ELSE pending
        /\ pc' = "exited"
        /\ UNCHANGED <<sessionVars, running, components, spoken, user_text, cycle_exc,
                       cycles, prev_exc, stop_req, pending,
                       captureVars, auxVars>>

\* main(): after initialize() failed or run() ended, the finally clause calls
\* cleanup(); main returns 1 after a failed initialize or an Exception, 0
\* after run() returned, and a KeyboardInterrupt ends the process.  raising
\* is the set of adapters whose release raises: each adapter's cleanup()
\* catches it, clears the attribute and returns.
main_return(raising) ==
    LET c == Cleanup(components, wake, stt, tts, cleaned)
    IN  /\ pc \in {"init_failed", "run_done"}
        /\ raising \subseteq Holding
        /\ cleanup_errors' = raising
        /\ wake' = c.wake
        /\ stt' = c.stt
        /\ tts' = c.tts
        /\ cleaned' = c.cleaned
        /\ exit_status' = IF pc = "init_failed" THEN "1"
                          ELSE IF pending = "none" THEN "0"
                          ELSE IF IsInstance(pending, "Exception") THEN "1"
                          ELSE pending
        /\ pc' = "exited"
        /\ UNCHANGED <<sessionVars, running, components, spoken, user_text, cycle_exc,
                       cycles, prev_exc, stop_req, pending,
                       captureVars, auxVars>>

\* The process before main() calls initialize().
AssistantStart ==
    /\ pc = "start"
    /\ running = FALSE
    /\ components = {}
    /\ wake = WakeReleased
    /\ stt = [pyaudio_instance |-> "None", stream |-> "None", terminated |-> 0,
              leaked |-> FALSE]
    /\ tts = [engine |-> "None"]
    /\ cleaned = [a \in AllAdapters |-> 0]
    /\ spoken = PyNone
    /\ user_text = PyNone
    /\ cycle_exc = {}
    /\ cycles = 0
    /\ prev_exc = {}
    /\ stop_req = NoStop
    /\ pending = "none"
    /\ exit_status = "running"
    /\ cleanup_errors = {}

(***************************************************************************)
(* SpeechToText.record_audio, one chunk at a time (stt.py).                *)
(***************************************************************************)
\* The longest max_duration, in seconds, and the highest sample_rate of a call.
MaxDuration == 3

MaxRate == 3

\* The defaults of record_audio, from Config; durations are in tenths of a
\* second (SILENCE_DURATION is 1.5).
AUDIO_SAMPLE_RATE == 16000

AUDIO_CHUNK_SIZE == 1024

RECORDING_TIMEOUT == 10

SILENCE_THRESHOLD == 500

SILENCE_DURATION == 15

DefaultArgs ==
    [sample_rate |-> AUDIO_SAMPLE_RATE, chunk_size |-> AUDIO_CHUNK_SIZE,
     silence_duration |-> SILENCE_DURATION, max_duration |-> RECORDING_TIMEOUT]

\* The arguments a call is made with.
RecordArgs ==
    [sample_rate : 2..MaxRate, chunk_size : {1, 2}, silence_duration : {10, 15},
     max_duration : 1..MaxDuration]

\* The mean absolute amplitude of a chunk: below, at and above the threshold.
Amplitudes == {SILENCE_THRESHOLD - 1, SILENCE_THRESHOLD, SILENCE_THRESHOLD + 1}

\* int(duration * sample_rate / chunk_size), the duration in tenths of a second.
ChunksIn(tenths, sample_rate, chunk_size) == (tenths * sample_rate) \div (10 * chunk_size)

max_silent_chunks(args) ==
    ChunksIn(args.silence_duration, args.sample_rate, args.chunk_size)

max_chunks(args) == ChunksIn(10 * args.max_duration, args.sample_rate, args.chunk_size)

\* A test that takes a chunk at the threshold for speech.
IsSpeechAtThreshold(amplitude) == amplitude >= SILENCE_THRESHOLD

\* if amplitude > silence_threshold
IsSpeech(amplitude) == amplitude > SILENCE_THRESHOLD

\* What record_audio returns: None, or the buffer of the frames it read.
NoAudio == [isNone |-> TRUE, frames |-> 0]

Audio(frames) == [isNone |-> FALSE, frames |-> frames]

\* frames is the number of chunks appended, reads the iterations of the loop
\* that completed, peak the largest amplitude read, failed whether a read raised.
NotRecording ==
    [pc |-> "idle", frames |-> 0, silent_chunks |-> 0, has_speech |-> FALSE, reads |-> 0,
     failed |-> FALSE, peak |-> 0, ret |-> NoAudio]

\* record_audio is called: PyAudio() and open(); a failure of either is
\* caught and None returned; otherwise the loop runs max_chunks times.
record_audio_open(fail) ==
    /\ rec.pc = "idle"
    /\ rec' = IF fail # "none" THEN [rec EXCEPT !.pc = "done"]
              ELSE [rec EXCEPT !.pc = IF max_chunks(record_args) = 0 THEN "closing"
                                      ELSE "reading"]
    /\ UNCHANGED <<sessionVars, assistantVars, record_args, auxVars>>

\* One iteration of the read loop: a read that raises breaks the loop; a
\* chunk read is appended, a chunk above the threshold is speech and resets
\* silent_chunks, another after speech counts as silent; the loop breaks when
\* silent_chunks > max_silent_chunks and ends after max_chunks iterations.
record_audio_read(amplitude, ok) ==
    LET speech == IsSpeech(amplitude)
        has    == rec.has_speech \/ speech
        silent == IF speech THEN 0
                  ELSE IF rec.has_speech THEN rec.silent_chunks + 1
                  ELSE rec.silent_chunks
        reads  == rec.reads + 1
    IN  /\ rec.pc = "reading"
        /\ rec' = IF ~ok THEN [rec EXCEPT !.failed = TRUE, !.pc = "closing"]
                  ELSE [rec EXCEPT
                           !.frames = @ + 1,
                           !.has_speech = has,
                           !.silent_chunks = silent,
                           !.reads = reads,
                           !.peak = IF amplitude > @ THEN amplitude ELSE @,
                           !.pc = IF (has /\ silent > max_silent_chunks(record_args))
                                      \/ reads = max_chunks(record_args)
                                  THEN "closing" ELSE "reading"]
        /\ UNCHANGED <<sessionVars, assistantVars, record_args, auxVars>>

\* After the loop: the stream is stopped and closed and PyAudio terminated
\* (a failure there is caught by the outer except, which returns None);
\* without speech None is returned, otherwise the frames read.
record_audio_close(close_ok) ==
    /\ rec.pc = "closing"
    /\ rec' = [rec EXCEPT !.pc = "done",
                          !.ret = IF close_ok /\ rec.has_speech THEN Audio(rec.frames)
                                  ELSE NoAudio]
    /\ UNCHANGED <<sessionVars, assistantVars, record_args, auxVars>>

\* No call of record_audio under way: the arguments are the defaults.
CaptureIdle ==
    /\ record_args = DefaultArgs
    /\ rec = NotRecording

\* A call record: op is the method, given the text and blocking the flag it
\* was called with, ok its boolean result, text the text it returned, n the
\* number it was given or returned, raised the exception that left it, reads,
\* processed and engine_calls the calls it made on the stream, the detector
\* and the speech engine, pre whether the adapter was ready when it was
\* called, fault what the device or engine did.
NoCall ==
    [op |-> "none", given |-> PyNone, blocking |-> FALSE, ok |-> FALSE, text |-> PyNone,
     n |-> 0, raised |-> "none", reads |-> 0, processed |-> 0, engine_calls |-> 0,
     pre |-> FALSE, fault |-> "none"]

AuxIdle ==
    /\ call = NoCall
    /\ appended = <<>>

(***************************************************************************)
(* The adapters called on their own, in any order: WakeWordDetector,       *)
(* TextToSpeech, SpeechToText.transcribe.                                  *)
(***************************************************************************)
\* What an adapter call leaves alone besides the adapters.
adapterFrame ==
    <<sessionVars, pc, running, stt, cleaned, spoken, user_text, cycle_exc,
      cycles, prev_exc, stop_req, pending, exit_status, cleanup_errors, captureVars,
      appended>>

\* What porcupine.process returns: -1, or the index of the keyword heard.
KeywordIndexes == {-1, 0, 1}

\* A test that misses the first keyword.
DetectedAboveZero(keyword_index) == keyword_index > 0

\* if keyword_index >= 0
Detected(keyword_index) == keyword_index >= 0

\* What one frame brings: whether the read and the detector succeed, and
\* the index the detector gives.
Frames == [read_ok : BOOLEAN, process_ok : BOOLEAN, keyword_index : KeywordIndexes]

FrameOutcome(frame) ==
    IF ~frame.read_ok THEN "read_error"
    ELSE IF ~frame.process_ok THEN "process_error"
    ELSE IF Detected(frame.keyword_index) THEN "keyword"
    ELSE "no_keyword"

\* WakeWordDetector.start
WakeWordDetector_start(fail) ==
    /\ wake' = wake_start(wake, fail)
    /\ call' = [NoCall EXCEPT !.op = "start", !.ok = (fail = "none"), !.fault = fail]
    /\ UNCHANGED <<adapterFrame, components, tts>>

\* WakeWordDetector.listen_once: behind the guard one frame is read, and
\* handed to the detector if the read succeeded; what is raised is caught.
WakeWordDetector_listen_once(frame) ==
    /\ call' = [NoCall EXCEPT
                   !.op = "listen_once",
                   !.pre = Listening(wake),
                   !.ok = listen_once(wake, FrameOutcome(frame)),
                   !.reads = IF Listening(wake) THEN 1 ELSE 0,
                   !.processed = IF Listening(wake) /\ frame.read_ok THEN 1 ELSE 0,
                   !.n = frame.keyword_index,
                   !.fault = IF ~frame.read_ok THEN "read_error"
                             ELSE IF ~frame.process_ok THEN "process_error"
                             ELSE "none"]
    /\ UNCHANGED <<adapterFrame, components, wake, tts>>

\* WakeWordDetector.stop
WakeWordDetector_stop ==
    /\ wake' = [wake EXCEPT !.is_listening = FALSE]
    /\ call' = [NoCall EXCEPT !.op = "stop"]
    /\ UNCHANGED <<adapterFrame, components, tts>>

\* WakeWordDetector.cleanup
WakeWordDetector_cleanup ==
    /\ wake' = wake_cleanup(wake)
    /\ call' = [NoCall EXCEPT !.op = "cleanup"]
    /\ UNCHANGED <<adapterFrame, components, tts>>

\* TextToSpeech(...): pyttsx3.init() and the property calls; a failure is
\* re-raised and leaves no adapter.
TextToSpeech_init(raises) ==
    /\ "tts" \notin components
    /\ IF raises
       THEN UNCHANGED <<components, tts>>
       ELSE /\ components' = components \cup {"tts"}
            /\ tts' = [engine |-> "open"]
    /\ call' = [NoCall EXCEPT !.op = "TextToSpeech",
                              !.ok = ~raises,
                              !.raised = IF raises THEN "Exception" ELSE "none",
                              !.fault = IF raises THEN "init_raises" ELSE "none"]
    /\ UNCHANGED <<adapterFrame, wake>>

\* The texts speak is given, and what the engine does with a request.
SpeakTexts ==
    {PyNone, PyStr(<<>>), PyStr(<<" ", "\t">>), PyStr(<<"hi">>), PyStr(<<" ", "hi">>)}

EngineOutcomes == {"ok", "say_raises", "run_raises"}

\* A speak that hands any text to the engine.
speak_unguarded(t, text, blocking, engine) ==
    IF t.engine = "None" THEN [ok |-> FALSE, engine_calls |-> 0]
    ELSE IF engine = "say_raises" THEN [ok |-> FALSE, engine_calls |-> 1]
    ELSE IF blocking THEN [ok |-> engine # "run_raises", engine_calls |-> 2]
    ELSE [ok |-> TRUE, engine_calls |-> 1]

\* TextToSpeech.speak: its result and the number of engine calls it makes
\* (say, then runAndWait when blocking); what the engine raises is caught.
speak(t, text, blocking, engine) ==
    IF ~Truthy(text) \/ IsBlank(text.s) THEN [ok |-> FALSE, engine_calls |-> 0]
    ELSE IF t.engine = "None" THEN [ok |-> FALSE, engine_calls |-> 0]
    ELSE IF engine = "say_raises" THEN [ok |-> FALSE, engine_calls |-> 1]
    ELSE IF blocking THEN [ok |-> engine # "run_raises", engine_calls |-> 2]
    ELSE [ok |-> TRUE, engine_calls |-> 1]

TextToSpeech_speak(text, blocking, engine) ==
    /\ "tts" \in components
    /\ LET r == speak(tts, text, blocking, engine)
       IN  call' = [NoCall EXCEPT !.op = "speak",
                                  !.given = text,
                                  !.blocking = blocking,
                                  !.pre = (tts.engine # "None"),
                                  !.ok = r.ok,
                                  !.engine_calls = r.engine_calls,
                                  !.fault = engine]
    /\ UNCHANGED <<adapterFrame, components, wake, tts>>

\* TextToSpeech.stop: engine.stop() inside try/except.
TextToSpeech_stop(raises) ==
    /\ "tts" \in components
    /\ call' = [NoCall EXCEPT !.op = "stop_speech",
                              !.pre = (tts.engine # "None"),
                              !.engine_calls = IF tts.engine # "None" THEN 1 ELSE 0,
                              !.fault = IF raises THEN "engine_raises" ELSE "none"]
    /\ UNCHANGED <<adapterFrame, components, wake, tts>>

\* The rates set_rate is given.
Rates == {100, 175}

\* TextToSpeech.set_rate: engine.setProperty('rate', rate) outside any try;
\* ok tells whether self.voice_rate was assigned, n is the rate given.
TextToSpeech_set_rate(rate, raises) ==
    /\ "tts" \in components
    /\ call' = [NoCall EXCEPT
                   !.op = "set_rate",
                   !.pre = (tts.engine # "None"),
                   !.n = rate,
                   !.engine_calls = IF tts.engine # "None" THEN 1 ELSE 0,
                   !.ok = (tts.engine # "None" /\ ~raises),
                   !.raised = IF tts.engine # "None" /\ raises THEN "Exception" ELSE "none",
                   !.fault = IF raises THEN "engine_raises" ELSE "none"]
    /\ UNCHANGED <<adapterFrame, components, wake, tts>>

\* The volumes set_volume is given, in tenths.
Volumes == {-5, 5, 15}

\* max(0.0, min(1.0, volume)), in tenths.
Clamp(volume) == IF volume < 0 THEN 0 ELSE IF volume > 10 THEN 10 ELSE volume

\* TextToSpeech.set_volume: the clamped volume is handed to
\* engine.setProperty outside any try; n is the volume handed over.
TextToSpeech_set_volume(volume, raises) ==
    /\ "tts" \in components
    /\ call' = [NoCall EXCEPT
                   !.op = "set_volume",
                   !.pre = (tts.engine # "None"),
                   !.n = IF tts.engine # "None" THEN Clamp(volume) ELSE 0,
                   !.engine_calls = IF tts.engine # "None" THEN 1 ELSE 0,
                   !.ok = (tts.engine # "None" /\ ~raises),
                   !.raised = IF tts.engine # "None" /\ raises THEN "Exception" ELSE "none",
                   !.fault = IF raises THEN "engine_raises" ELSE "none"]
    /\ UNCHANGED <<adapterFrame, components, wake, tts>>

\* TextToSpeech.cleanup
TextToSpeech_cleanup ==
    /\ "tts" \in components
    /\ tts' = tts_cleanup(tts)
    /\ call' = [NoCall EXCEPT !.op = "cleanup_speech", !.pre = (tts.engine # "None")]
    /\ UNCHANGED <<adapterFrame, components, wake>>

\* The segments the engine gives: each is the text of one segment.
SegmentLists ==
    {<<>>, << <<" ">> >>, << <<" ">>, <<>> >>, << <<"hello">> >>,
     << <<" ", "hello">>, <<"world", " ">> >>}

\* " ".join(texts)
RECURSIVE Join(_)
Join(texts) ==
    IF texts = <<>> THEN <<>>
    ELSE IF Len(texts) = 1 THEN texts[1]
    ELSE texts[1] \o <<" ">> \o Join(Tail(texts))

\* SpeechToText.transcribe: None without a model; otherwise the segments
\* the engine gives are joined and stripped. given is the joined text.
SpeechToText_transcribe(model_loaded, raises, segments) ==
    /\ call' = [NoCall EXCEPT
                   !.op = "transcribe",
                   !.pre = model_loaded,
                   !.given = PyStr(Join(segments)),
                   !.engine_calls = IF model_loaded THEN 1 ELSE 0,
                   !.fault = IF raises THEN "engine_raises" ELSE "none",
                   !.text = IF ~model_loaded THEN PyNone
                            ELSE transcribe([raises |-> raises, text |-> Join(segments)])]
    /\ UNCHANGED <<adapterFrame, components, wake, tts>>

AdapterNext ==
    \/ \E fail \in StartFailures : WakeWordDetector_start(fail)
    \/ \E frame \in Frames : WakeWordDetector_listen_once(frame)
    \/ WakeWordDetector_stop
    \/ WakeWordDetector_cleanup
    \/ \E raises \in BOOLEAN : TextToSpeech_init(raises)
    \/ \E text \in SpeakTexts, blocking \in BOOLEAN, engine \in EngineOutcomes :
          TextToSpeech_speak(text, blocking, engine)
    \/ \E raises \in BOOLEAN : TextToSpeech_stop(raises)
    \/ \E rate \in Rates, raises \in BOOLEAN : TextToSpeech_set_rate(rate, raises)
    \/ \E volume \in Volumes, raises \in BOOLEAN : TextToSpeech_set_volume(volume, raises)
    \/ TextToSpeech_cleanup
    \/ \E model_loaded \in BOOLEAN, raises \in BOOLEAN, segments \in SegmentLists :
          SpeechToText_transcribe(model_loaded, raises, segments)

(***************************************************************************)
(* The session used on its own: exchanges that succeed, token estimates.   *)
(***************************************************************************)
\* The number of exchanges followed.
MaxSends == 3

\* sum(len(msg["content"]) for msg in conversation_history)
RECURSIVE total_chars(_)
total_chars(history) ==
    IF history = <<>> THEN 0 ELSE Len(Head(history).content) + total_chars(Tail(history))

\* An estimate that rounds up.
get_token_usage_estimate_rounds_up(history) == (total_chars(history) + 3) \div 4

\* ChatGPTClient.get_token_usage_estimate: total_chars // 4
get_token_usage_estimate(history) == total_chars(history) \div 4

\* A call of get_token_usage_estimate.
get_token_usage_estimate_call ==
    /\ call' = [NoCall EXCEPT !.op = "get_token_usage_estimate",
                              !.n = get_token_usage_estimate(conversation_history)]
    /\ UNCHANGED <<sessionVars, assistantVars, captureVars, appended>>

\* A send_message with a message that is not blank whose remote call
\* succeeds: the user message and the reply it appended are logged.
exchange(text, content) ==
    LET r == SendResult(conversation_history, text, [raised |-> "none", content |-> content],
                        max_history)
    IN  /\ ~IsBlank(text)
        /\ Len(appended) < 2 * MaxSends
        /\ send_message(text, [raised |-> "none", content |-> content])
        /\ appended' = appended \o <<Last(r.request), Message("assistant", r.ret.s)>>
        /\ call' = [NoCall EXCEPT !.op = "send_message"]
        /\ UNCHANGED <<assistantVars, captureVars>>

ExchangeNext ==
    \/ \E text \in UserTexts, content \in ReplyTexts : exchange(text, content)
    \/ get_token_usage_estimate_call

\* A session as constructed, under any system prompt and size.
ExchangeInit == SessionInit /\ AssistantStart /\ CaptureIdle /\ AuxIdle

ExchangeSpec == ExchangeInit /\ [][ExchangeNext]_vars

(***************************************************************************)
(* Spec: a conversation session on its own, under any calls.               *)
(***************************************************************************)
Init == SessionInit /\ AssistantStart /\ CaptureIdle /\ AuxIdle

Next ==
    \/ \E text \in UserTexts, outcome \in RemoteOutcomes :
           send_message(text, outcome) /\ UNCHANGED <<assistantVars, captureVars, auxVars>>
    \/ trim_history_call /\ UNCHANGED <<assistantVars, captureVars, auxVars>>
    \/ reset_conversation /\ UNCHANGED <<assistantVars, captureVars, auxVars>>

Spec == Init /\ [][Next]_vars

(***************************************************************************)
(* AssistantSpec: the process of main().                                   *)
(***************************************************************************)
SessionUnbuilt ==
    /\ max_history = MAX_CONVERSATION_HISTORY
    /\ conversation_history = <<>>
    /\ op = "__init__"
    /\ user_message = <<>>
    /\ before = <<>>
    /\ request = <<>>
    /\ raised = "none"
    /\ result = PyNone
    /\ propagated = "none"

AssistantInit == AssistantStart /\ SessionUnbuilt /\ CaptureIdle /\ AuxIdle

\* The steps of the thread of main().
Program ==
    \/ \E fail \in {"none"} \cup AllAdapters : initialize(fail)
    \/ \E fail \in StartFailures : run_start(fail)
    \/ welcome
    \/ loop_head
    \/ \E outcome \in ListenOutcomes : listen_return(outcome)
    \/ \E fail \in OpenFailures : record_open(fail)
    \/ \E outcome \in ReadOutcomes : record_read(outcome)
    \/ \E outcome \in TranscribeOutcomes, exc \in Unexpected : transcribe_return(outcome, exc)
    \/ \E outcome \in CycleOutcomes, exc \in Unexpected : converse(outcome, exc)
    \/ \E engine_ok \in BOOLEAN : speak_response(engine_ok)
    \/ pause
    \/ \E raising \in ReleaseFailures : main_return(raising)

AssistantNext == Program \/ interrupt \/ stop

AssistantSpec == AssistantInit /\ [][AssistantNext]_vars

\* Every call the thread makes returns: the thread keeps taking steps.
AssistantFairSpec == AssistantSpec /\ WF_vars(Program)

(***************************************************************************)
(* CaptureSpec: one call of record_audio, under any arguments, chunks and  *)
(* device failures.                                                        *)
(***************************************************************************)
CaptureInit ==
    /\ AssistantStart
    /\ SessionUnbuilt
    /\ record_args \in RecordArgs
    /\ rec = NotRecording
    /\ AuxIdle

CaptureNext ==
    \/ \E fail \in OpenFailures : record_audio_open(fail)
    \/ \E amplitude \in Amplitudes, ok \in BOOLEAN : record_audio_read(amplitude, ok)
    \/ \E close_ok \in BOOLEAN : record_audio_close(close_ok)

CaptureSpec == CaptureInit /\ [][CaptureNext]_vars

\* The adapters before any call: the wake detector is constructed and not
\* started; components gains "tts" when the speech adapter is constructed.
AdapterInit == AssistantStart /\ SessionUnbuilt /\ CaptureIdle /\ AuxIdle

AdapterSpec == AdapterInit /\ [][AdapterNext]_vars

(***************************************************************************)
(* Properties of the conversation session.                                 *)
(***************************************************************************)
SystemCount(h) == Len(SelectSeq(h, IsSystem))

\* The last k elements of seq, all of it when it has fewer.
LastK(seq, k) == SubSeq(seq, (IF Len(seq) > k THEN Len(seq) - k ELSE 0) + 1, Len(seq))

\* C1: after every completed send_message or reset_conversation the history
\* holds at most max_history messages.
C1_HistoryBounded ==
    op \in {"send_message", "reset_conversation"}
        => Len(conversation_history) <= max_history

\* C2: _trim_history of a history longer than H leaves the system message (if
\* present) followed by the most recent H - s non-system messages in their
\* order, s the number of system messages; none of them when H - s = 0.
C2_TrimKeepsMostRecent ==
    (op = "_trim_history" /\ Len(before) > max_history)
        => conversation_history =
               SelectSeq(before, IsSystem)
                   \o LastK(SelectSeq(before, IsOther), max_history - SystemCount(before))

\* C3: the history holds at most one system message, at index 1 (Python's
\* index 0) when present, and no call removes or changes it.
C3_SystemMessagePinned ==
    /\ \A i \in 1..Len(conversation_history) : IsSystem(conversation_history[i]) => i = 1
    /\ (op # "__init__" /\ SystemCount(before) > 0)
           => /\ conversation_history # <<>>
              /\ conversation_history[1] = before[1]

\* C3's case: a call dropped messages from a history that starts with the
\* system message.
C3_Witness ==
    /\ op \in {"send_message", "_trim_history"}
    /\ SystemCount(before) = 1
    /\ Len(conversation_history) < Len(before)
    /\ Len(conversation_history) > 1

\* C4: a send_message whose remote call fails appends no assistant message,
\* leaves its user message last in the history and returns (nothing is
\* raised); the next send_message sends the history with that user message,
\* followed by its own.
C4_FailedCallKeepsUserMessage ==
    /\ [](  (op = "send_message" /\ raised \in RemoteErrors)
            => /\ conversation_history = Append(before, Message("user", user_message))
               /\ propagated = "none"
               /\ ~result.isNone )
    /\ [][ (  /\ op = "send_message" /\ raised \in RemoteErrors
              /\ op' = "send_message" /\ request' # <<>>  )
           => /\ Len(request') = Len(conversation_history) + 1
              /\ SubSeq(request', 1, Len(conversation_history)) = conversation_history
              /\ request'[Len(conversation_history)] = Message("user", user_message)
              /\ Last(request') = Message("user", user_message') ]_vars

\* C4's case: a send_message that succeeded right after one that failed;
\* its request ends with the dangling user message and its own.
C4_Witness ==
    /\ op = "send_message"
    /\ raised = "none"
    /\ Len(request) >= 3
    /\ request[Len(request) - 1].role = "user"
    /\ Last(request).role = "user"
    /\ Last(conversation_history).role = "assistant"

\* C5: send_message with an empty or whitespace-only text returns None,
\* issues no remote call and leaves the history as it was.
C5_BlankMessageRejected ==
    (op = "send_message" /\ \A i \in 1..Len(user_message) : user_message[i] \in Whitespace)
        => /\ result = PyNone
           /\ propagated = "none"
           /\ request = <<>>
           /\ conversation_history = before

\* C5's case: a whitespace-only message was sent to a session with a history.
C5_Witness ==
    /\ op = "send_message"
    /\ user_message = <<" ", "\t">>
    /\ Len(before) >= 2

\* The failure categories of the remote call.
Category(exc) ==
    IF IsInstance(exc, "RateLimitError") THEN "rate-limited"
    ELSE IF IsInstance(exc, "APIConnectionError") THEN "connection-failed"
    ELSE IF IsInstance(exc, "APIError") THEN "service-error"
    ELSE "unknown"

C8_OneMicrophoneReader == ~(wake.audio_stream = "open" /\ stt.stream = "open")

InitFailed == pc # "start" /\ components # AllAdapters

StopWhileWaiting == stop_req.by # "none" /\ stop_req.at \in Waiting

\* Stopped: run() has ended; cleanup follows in main().
Stopped == pc \in {"run_done", "exited"}

\* C10 as stated: once a stop is requested while the loop waits for the wake
\* word, no further listen_once call and no cycle starts, the orchestrator
\* reaches Stopped, and cleanup runs after that.
C10_NoCycleAfterStop ==
    /\ [][StopWhileWaiting => ~(pc = "loop" /\ pc' = "listening")]_vars
    /\ [][StopWhileWaiting => cycles' = cycles]_vars
    /\ [][(StopWhileWaiting /\ ~Stopped) => cleaned' = cleaned]_vars
    /\ [](StopWhileWaiting /\ pc = "exited" => \A a \in Cleanable : cleaned[a] >= 1)
    /\ StopWhileWaiting ~> (pc = "exited")

\* C10 amended: once a stop is requested while the loop waits for the wake
\* word, no further listen_once call starts; the call in flight may still
\* report the wake word, and then the one cycle it triggers runs (only after
\* stop(), never after an interrupt); no cleanup runs before run() has ended,
\* the orchestrator reaches Stopped, and then cleanup runs on the wake
\* detector, the capture/transcription adapter and the speech output.
C10_StopEndsTheLoop ==
    /\ [][StopWhileWaiting => ~(pc = "loop" /\ pc' = "listening")]_vars
    /\ [](StopWhileWaiting
            => /\ cycles <= stop_req.cycles + 1
               /\ stop_req.by = "interrupt" => cycles = stop_req.cycles)
    /\ [][(StopWhileWaiting /\ ~Stopped) => cleaned' = cleaned]_vars
    /\ [](StopWhileWaiting /\ pc = "exited"
            => /\ \A a \in Cleanable : cleaned[a] >= 1
               /\ wake = WakeReleased
               /\ ~running)
    /\ StopWhileWaiting ~> (pc = "exited")

\* C10's case: stop() was called during a listen_once call that then
\* reported the wake word; the cycle ran and main ended.
C10_Witness ==
    /\ stop_req.by = "stop"
    /\ stop_req.at = "listening"
    /\ cycles = stop_req.cycles + 1
    /\ pc = "exited"
    /\ exit_status = "0"

\* A step of the cycle that issues the remote call: send_message appends the
\* user message and calls the API.
IssuesRemoteCall ==
    /\ pc = "conversing"
    /\ Len(conversation_history') > Len(conversation_history)

\* C11: an interrupt never cuts short a cycle that has issued its remote
\* call: the step that issues the call, and every step of the cycle after it,
\* goes on to the spoken response or fallback, never to the end of run().
C11_InterruptNeverCutsCycle ==
    [][(IssuesRemoteCall \/ pc = "speaking") => pc' \in {"speaking", "pause"}]_vars

\* The order of the stages: from each position of the loop, the positions
\* the thread may go to next (a stage that yields nothing ends the cycle, a
\* stop ends the loop).
StageOrder ==
    {<<"loop", "listening">>, <<"listening", "loop">>, <<"listening", "capture">>,
     <<"capture", "recording">>, <<"recording", "transcribing">>,
     <<"transcribing", "conversing">>, <<"conversing", "speaking">>,
     <<"speaking", "pause">>, <<"pause", "loop">>}
    \cup {<<p, "pause">> : p \in {"capture", "recording", "transcribing", "conversing"}}
    \cup {<<p, "run_done">> : p \in InTry}

\* C12: in the loop the stages follow one another in the order wake
\* detection, capture, transcription, remote call, speech; the session is
\* touched (the remote call made) only by the step that leaves the remote-call
\* stage, so once per cycle; and a cycle starts only from a wake poll, which
\* starts only after the previous cycle's speech stage has ended.
C12_StagesInOrder ==
    [][/\ (pc \in InTry /\ pc' # pc) => <<pc, pc'>> \in StageOrder
       /\ (pc \in InTry /\ sessionVars' # sessionVars)
              => pc = "conversing" /\ pc' # "conversing"
       /\ cycles' # cycles
              => pc = "listening" /\ pc' = "capture" /\ cycles' = cycles + 1]_vars

C12_Witness ==
    /\ cycles = 2
    /\ pc = "pause"
    /\ Truthy(result) /\ spoken = result
    /\ raised = "none"
    /\ Len(conversation_history) = 5

\* A step in which the capture or the transcription of the cycle ends with
\* nothing: record_audio does not go on to its read loop or to transcription,
\* or transcribe leaves user_text None.
YieldsNothing ==
    /\ pc' \notin {pc, "run_done"}
    /\ \/ pc = "capture" /\ pc' # "recording"
       \/ pc = "recording" /\ pc' # "transcribing"
       \/ pc = "transcribing" /\ ~Truthy(user_text')

\* C13: a cycle whose capture or transcription yields nothing makes no
\* remote call and leaves the session as it was, the "didn't catch that"
\* prompt is spoken, and the loop goes back to waiting for the wake word.
C13_NothingHeardSkipsRemoteCall ==
    /\ [][YieldsNothing => /\ pc' = "pause"
                            /\ spoken' = PyStr(DidntCatchSentence)
                            /\ UNCHANGED sessionVars]_vars
    /\ [][(pc = "pause" /\ pc' # pc) => (pc' \in {"loop", "run_done"}
                                         /\ UNCHANGED sessionVars)]_vars

C13_Witness ==
    /\ pc = "listening"
    /\ cycles = 1
    /\ ~Truthy(user_text)
    /\ spoken = PyStr(DidntCatchSentence)
    /\ request = <<>>
    /\ conversation_history = InitialHistory(PyStr(SYSTEM_PROMPT))

\* The cycle has ended after send_message returned, and nothing was raised
\* between the calls of handle_conversation.
AfterRemoteCall ==
    /\ pc = "pause"
    /\ Truthy(user_text)
    /\ "unexpected" \notin cycle_exc

\* C14: in a cycle the "trouble processing" prompt is spoken exactly when
\* send_message returned None, and every result that is not None is the text
\* that is spoken.
C14_TroubleOnlyOnNull ==
    AfterRemoteCall
        => /\ (spoken = PyStr(TroubleSentence)) <=> result.isNone
           /\ ~result.isNone => spoken = result

Ran == components = AllAdapters /\ pc = "exited"

C16_ReleasedExactlyOnce ==
    /\ stt.terminated <= 1
    /\ ~stt.leaked
    /\ pc = "exited" => /\ stt.stream # "open"
                        /\ stt.pyaudio_instance # "open"
                        /\ wake.audio_stream # "open"
                        /\ wake.pyaudio_instance # "open"
                        /\ wake.porcupine # "open"
                        /\ tts.engine # "open"

\* The handles of each adapter on which its cleanup() calls a release.
wake_releases(w) ==
    {h \in {"audio_stream", "porcupine", "pyaudio_instance"} : w[h] # "None"}

stt_releases(st) == IF st.pyaudio_instance # "None" THEN {"pyaudio_instance"} ELSE {}

tts_releases(t) == IF t.engine # "None" THEN {"engine"} ELSE {}

\* C17: cleanup() twice in a row on an adapter: the second call releases
\* nothing, so nothing can raise in it, and it leaves the adapter as the first
\* call left it; so does the cleanup() of main() after that of a failed
\* initialize().
C17_CleanupIdempotent ==
    /\ []( /\ wake_releases(wake_cleanup(wake)) = {}
           /\ wake_cleanup(wake_cleanup(wake)) = wake_cleanup(wake)
           /\ stt_releases(stt_cleanup(stt)) = {}
           /\ stt_cleanup(stt_cleanup(stt)) = stt_cleanup(stt)
           /\ tts_releases(tts_cleanup(tts)) = {}
           /\ tts_cleanup(tts_cleanup(tts)) = tts_cleanup(tts) )
    /\ [][pc = "init_failed" => /\ cleanup_errors' = {}
                                /\ <<wake, stt, tts>>' = <<wake, stt, tts>>]_vars

\* cleanup() ran twice in a row on the wake detector: start() failed and
\* cleaned up, then main() did.
C17_Witness ==
    /\ pc = "exited"
    /\ components = AllAdapters
    /\ cleaned["wake_word"] = 2
    /\ cleaned["stt"] = 1
    /\ cleaned["tts"] = 1
    /\ wake = WakeReleased

(***************************************************************************)
(* Properties of record_audio.                                             *)
(***************************************************************************)
\* C18: a read that fails ends the reading, and record_audio then returns
\* None, whether or not speech had been read before.
C18_ReadFailureYieldsNull ==
    rec.failed => /\ rec.pc # "reading"
                  /\ rec.pc = "done" => rec.ret.isNone

\* C19: when no chunk read had an amplitude above the threshold, record_audio
\* returns None.
C19_SilenceYieldsNull ==
    (rec.pc = "done" /\ rec.peak <= SILENCE_THRESHOLD) => rec.ret.isNone

\* A call that read several chunks, the loudest at the threshold, to the end
\* of its budget.
C19_Witness ==
    /\ rec.pc = "done"
    /\ rec.frames >= 2
    /\ rec.frames = max_chunks(record_args)
    /\ rec.peak = SILENCE_THRESHOLD
    /\ ~rec.failed
    /\ rec.ret.isNone

\* C20: after speech, record_audio does not go on reading once
\* max_silent_chunks consecutive chunks at or below the threshold have
\* followed it; a chunk above the threshold sets the count to zero; and no
\* more than max_chunks chunks are read.
C20_StopsAfterConfiguredSilence ==
    /\ (rec.pc = "reading" /\ rec.has_speech)
           => rec.silent_chunks < max_silent_chunks(record_args)
    /\ rec.reads <= max_chunks(record_args)
    /\ rec.frames <= max_chunks(record_args)
    /\ rec.silent_chunks > 0 => rec.has_speech

(***************************************************************************)
(* Further properties of the conversation session.                         *)
(***************************************************************************)
HasSystem(h) == \E i \in 1..Len(h) : IsSystem(h[i])

\* C23: after reset_conversation the history holds the system messages it
\* held before, unchanged, and nothing else: one message if there was a
\* system message, none otherwise.
C23_ResetKeepsOnlySystem ==
    op = "reset_conversation"
        => /\ conversation_history = SelectSeq(before, IsSystem)
           /\ \A i \in 1..Len(conversation_history) : IsSystem(conversation_history[i])
           /\ Len(conversation_history) = IF HasSystem(before) THEN 1 ELSE 0

C23_Witness ==
    /\ op = "reset_conversation"
    /\ Len(before) >= 3
    /\ HasSystem(before)
    /\ conversation_history = <<before[1]>>

\* The histories the session has held or sent.
SeenHistories == {conversation_history, before, request}

\* C24: trimming twice gives what trimming once gives, under every size H,
\* and a history of at most H messages is left as it is.
C24_TrimIdempotent ==
    \A H \in 1..MaxH : \A h \in SeenHistories :
        /\ trim_history(trim_history(h, H), H) = trim_history(h, H)
        /\ Len(h) <= H => trim_history(h, H) = h

\* _trim_history was called on a history two over its size and cut it.
C24_Witness ==
    /\ op = "_trim_history"
    /\ Len(before) = max_history + 2
    /\ Len(conversation_history) = max_history

\* C26: the remote call of send_message carries the history as it stood,
\* followed by the user message of the call as given; on success the
\* stripped reply is returned and appended after it as the one assistant
\* message, and the trimming applied to that.
C26_RequestCarriesWholeHistory ==
    (op = "send_message" /\ ~IsBlank(user_message))
        => /\ request = Append(before, Message("user", user_message))
           /\ raised = "none"
                 => /\ ~result.isNone
                    /\ Strip(result.s) = result.s
                    /\ conversation_history =
                           trim_history(Append(request, Message("assistant", result.s)),
                                        max_history)

C26_Witness ==
    /\ op = "send_message"
    /\ raised = "none"
    /\ Len(before) >= 2
    /\ user_message = <<" ", "b">>
    /\ result = PyStr(<<"y">>)
    /\ Last(conversation_history) = Message("assistant", <<"y">>)

\* C25: in a session with a system message and a size H >= 2, once the
\* successful calls made since construction have appended more than H - 1
\* messages, the history holds exactly H messages: the system message, then
\* the H - 1 messages appended last, in the order they were appended.
C25_KeepsSystemAndMostRecent ==
    (HasSystem(conversation_history) /\ max_history >= 2
        /\ Len(appended) + 1 > max_history)
        => /\ Len(conversation_history) = max_history
           /\ IsSystem(conversation_history[1])
           /\ SubSeq(conversation_history, 2, max_history) = LastK(appended, max_history - 1)

C25_Witness ==
    /\ HasSystem(conversation_history)
    /\ max_history = 3
    /\ Len(appended) = 6
    /\ appended[5] # appended[3]
    /\ op = "send_message"

\* The number of characters in the contents of the messages of h.
CharCount(h) ==
    Cardinality({p \in (1..Len(h)) \X (1..4) : p[2] <= Len(h[p[1]].content)})

\* C27: get_token_usage_estimate returns the sum of the lengths of the
\* contents of all messages of the history, divided by 4 and rounded down,
\* and leaves the session as it was.
C27_EstimateIsQuarterOfChars ==
    /\ [](call.op = "get_token_usage_estimate"
             => /\ 4 * call.n <= CharCount(conversation_history)
                /\ CharCount(conversation_history) < 4 * call.n + 4)
    /\ [][call'.op = "get_token_usage_estimate" => UNCHANGED sessionVars]_vars

\* Three messages, the system message among them, of three characters in all.
C27_Witness ==
    /\ call.op = "get_token_usage_estimate"
    /\ call.n = 0
    /\ CharCount(conversation_history) = 3
    /\ Len(conversation_history) = 3
    /\ HasSystem(conversation_history)

(***************************************************************************)
(* Further properties of the adapters.                                     *)
(***************************************************************************)
\* C21: listen_once called before a successful start, after a failed start,
\* or after stop or cleanup returns False, reads no frame, does not call the
\* detector and raises nothing. The detector is not listening at first,
\* stops listening on stop, cleanup and a failed start, and starts listening
\* only on a successful start; a listen_once that finds it not listening
\* does nothing.
C21_NotListeningReadsNothing ==
    /\ ~wake.is_listening
    /\ [][/\ (call'.op \in {"stop", "cleanup"} \/ (call'.op = "start" /\ ~call'.ok))
              => ~wake'.is_listening
          /\ (wake'.is_listening /\ ~wake.is_listening)
              => (call'.op = "start" /\ call'.ok)
          /\ (call'.op = "listen_once" /\ ~wake.is_listening)
              => /\ ~call'.ok
                 /\ call'.reads = 0
                 /\ call'.processed = 0
                 /\ call'.raised = "none"
                 /\ wake' = wake]_vars

\* listen_once after stop(): the handles are still open, the frame offered
\* would have carried the keyword, and the call returned False.
C21_Witness ==
    /\ call.op = "listen_once"
    /\ ~wake.is_listening
    /\ wake.audio_stream = "open"
    /\ wake.porcupine = "open"
    /\ call.fault = "none"
    /\ call.n = 0
    /\ ~call.ok
    /\ call.reads = 0

\* C22: a listen_once on a listening detector reads exactly one frame and
\* returns True exactly when the read and the detector succeed and the
\* keyword index is >= 0; a failed read or a failing detector gives False,
\* and nothing is raised.
C22_TrueIffKeywordIndex ==
    (call.op = "listen_once" /\ wake.is_listening)
        => /\ call.reads = 1
           /\ call.processed = (IF call.fault = "read_error" THEN 0 ELSE 1)
           /\ call.ok <=> (call.fault = "none" /\ call.n >= 0)
           /\ call.raised = "none"

\* The first keyword (index 0) is detected.
C22_Witness ==
    /\ call.op = "listen_once"
    /\ wake.is_listening
    /\ call.fault = "none"
    /\ call.n = 0
    /\ call.ok
    /\ call.reads = 1

\* C28: speak with an empty or whitespace-only text returns False and makes
\* no engine call; with any other text it returns True only if the engine
\* took the request (say, and runAndWait when blocking, did not raise); it
\* raises nothing.
C28_SpeakGuardsAndCatches ==
    call.op = "speak"
        => /\ (~Truthy(call.given) \/ IsBlank(call.given.s))
              => (~call.ok /\ call.engine_calls = 0)
           /\ call.ok
              => /\ call.pre
                 /\ call.fault # "say_raises"
                 /\ call.blocking => call.fault = "ok"
                 /\ call.engine_calls >= 1
           /\ (call.fault = "say_raises" \/ (call.blocking /\ call.fault = "run_raises"))
              => ~call.ok
           /\ call.raised = "none"

\* A whitespace-only text given to a working engine.
C28_Witness ==
    /\ call.op = "speak"
    /\ call.given = PyStr(<<" ", "\t">>)
    /\ call.pre
    /\ call.fault = "ok"
    /\ ~call.ok
    /\ call.engine_calls = 0

\* C29: stop, set_rate and set_volume of the speech adapter return normally
\* whatever the engine does.
C29_EngineErrorsSwallowed ==
    call.op \in {"stop_speech", "set_rate", "set_volume"} => call.raised = "none"

\* C30: transcribe raises nothing and never returns an empty string: it
\* returns None when the engine raises, when no model is loaded, or when the
\* joined and stripped text is empty, and the non-empty stripped text
\* otherwise.
C30_NoneOrNonEmptyText ==
    call.op = "transcribe"
        => /\ call.raised = "none"
           /\ call.text # PyStr(<<>>)
           /\ call.text.isNone
              <=> (~call.pre \/ call.fault = "engine_raises" \/ Strip(call.given.s) = <<>>)
           /\ ~call.text.isNone
              => (call.text.s = Strip(call.given.s) /\ call.text.s # <<>>)

\* Two segments of whitespace, joined and stripped to nothing, from a
\* loaded model that did not raise.
C30_Witness ==
    /\ call.op = "transcribe"
    /\ call.pre
    /\ call.fault = "none"
    /\ call.given = PyStr(<<" ", " ">>)
    /\ call.text = PyNone

(***************************************************************************)
(* Further properties of the process and of the stored history.            *)
(***************************************************************************)
\* run() found all four adapters and wake_word.start() returned False:
\* start() is the only caller of the detector's cleanup() besides the one
\* call main() makes on its way out.
StartFailed ==
    /\ components = AllAdapters
    /\ cleaned["wake_word"] > (IF pc = "exited" THEN 1 ELSE 0)

\* C31: when wake_word.start() returns False the loop is not entered (no
\* sentence is spoken, no cycle runs) and main returns a non-zero status.
C31_StartFailureExitsNonZero ==
    StartFailed
        => /\ pc \in {"run_done", "exited"}
           /\ spoken = PyNone
           /\ cycles = 0
           /\ pc = "exited" => exit_status # "0"

\* C32: once run() is no longer executing, by whatever path it was left, the
\* running flag is False.
C32_NotRunningAfterRun ==
    pc \in {"run_done", "exited"} => ~running

\* C33: in a history built by send_message calls whose remote calls all
\* succeed, every assistant message comes right after a user message.
C33_ReplyFollowsItsQuestion ==
    \A i \in 1..Len(conversation_history) :
        conversation_history[i].role = "assistant"
            => (i > 1 /\ conversation_history[i - 1].role = "user")

\* C34: no stored message has an empty or whitespace-only content.
C34_NoBlankContentStored ==
    \A i \in 1..Len(conversation_history) :
        ~IsBlank(conversation_history[i].content)

====
